---- MODULE Spec2Model ----
(***************************************************************************)
(* Model of the PV production forecasting service forecasting_tool:       *)
(*   OpenMeteoClient.get_forecast          (src/app/weather_client.py)     *)
(*   ForecastingService.get_weather_data,                                  *)
(*     predict_production, calculate_energy_kwh,                           *)
(*     format_forecast_response             (src/app/services.py)          *)
(*   JWTAuthService, MockAuthService       (src/app/auth/)                 *)
(*   the request models                    (src/app/models.py)             *)
(*   get_current_user and the endpoints    (src/app/main.py)               *)
(*                                                                         *)
(* Five specifications share the module: Spec runs the engine functions    *)
(* of one forecast, ApiSpec answers HTTP requests one after the other over *)
(* one database, PowerSpec applies the power model to drawn samples,       *)
(* ForecastSpec interleaves the pipeline steps of concurrent forecast      *)
(* invocations, AuthSpec interleaves the authenticate calls of requests    *)
(* served by several server processes on one database.                     *)
(*                                                                         *)
(* Numbers.  Power and energy are fixed-point integers in micro-kW         *)
(* (UnitsPerKw units per kW), so that the PVWatts product is exact for the *)
(* inputs drawn here; round(x, 2) is round-half-even to a multiple of Cent.*)
(* Samples are finite numbers (NaN is not a value of the model).           *)
(* Irradiance is in units of 100 W/m2, temperature in whole degrees C.     *)
(* Time.  A datetime is a record [day, hour, minute, second, microsecond], *)
(* day being the calendar day number; strftime output is a tuple.          *)
(***************************************************************************)
EXTENDS Integers, Sequences, FiniteSets, TLC

VARIABLES
    pc,            \* position of the caller: start, fetched, predicted, supplied, done, summed,
                   \* or fetch_failed, predict_failed, format_failed after a call that raised
    pv_system,     \* the PVSystem record the engine is called with
    upstream,      \* what the HTTP call of get_forecast met (transport outcome and payload)
    weather,       \* weather_data: the DataFrame returned by get_weather_data
    power_series,  \* power_forecast: the Series given to format_forecast_response
    solar_calls,   \* number of pvlib.solarposition.get_solarposition calls made
    energy,        \* value returned by a direct calculate_energy_kwh call
    report,        \* the dict returned by format_forecast_response
    raised,        \* exception that left the last engine call, "none" if it returned
    now,           \* datetime.now(timezone.utc) as read by format_forecast_response
    system_id,     \* system_id argument of format_forecast_response
    users,         \* table users: the User rows, [id, email]
    systems,       \* table pv_systems: the PVSystem rows in insertion order
    env_testing,   \* os.getenv("TESTING") as get_auth_service reads it
    request,       \* the HTTP request the application answered last
    response,      \* its answer: status, detail and body
    effects,       \* what answering it did: handler run, weather fetched and the
                   \* forecast_days asked of Open-Meteo, users rows added
    power_model,   \* lines 112-126 of predict_production applied to drawn samples
    service,       \* the module-level ForecastingService of main.py and its attributes
    calls,         \* the local variables of each forecast invocation running concurrently
    sessions       \* each concurrent authenticate call and its own database session

engineVars == <<pc, pv_system, upstream, weather, power_series, solar_calls, energy,
                report, raised, now, system_id>>

apiVars == <<users, systems, env_testing, request, response, effects>>

taskVars == <<service, calls, sessions>>

vars == <<engineVars, apiVars, power_model, taskVars>>

-----------------------------------------------------------------------------
(* Bounds of the model *)

\* longest hourly array / power series drawn (the limit of the code is 168)
MaxLen == 170
\* malformed payloads (missing or short measurement arrays) are drawn up to this length
MaxBadLen == 3
\* last calendar day number the clock can show
MaxDay == 1

\* rows the table pv_systems can hold
MaxSystems == 2

\* forecast invocations, and authenticate calls, that run concurrently
MaxInvocations == 2

\* hours of weather the upstream returns to the forecast endpoint
ApiHours == 3

\* timestamps the power model is applied to at once
MaxSamples == 2

(* Program constants *)

MaxHours == 168
HoursPerDay == 24
ForecastDays == 7
WindowDays == 7

DATETIME_FORMAT == "%Y-%m-%dT%H:%M:%SZ"
DAY_FORMAT == "%Y-%m-%d"

\* fixed-point scale: units per kW, and units per 0.01 kW (the 2 of round(x, 2))
UnitsPerKw == 1000 * 1000
Cent == UnitsPerKw \div 100

NoValue == "NoValue"

Min(a, b) == IF a < b THEN a ELSE b
Max(a, b) == IF a > b THEN a ELSE b

-----------------------------------------------------------------------------
(* Python / pandas primitives used by the code *)

\* seq[a:b] and Series.iloc[a:b] for 0 <= a <= b: clipped to the length, never raises
Slice(s, a, b) == SubSeq(s, Min(a, Len(s)) + 1, Min(b, Len(s)))

\* s[lo] + ... + s[hi], 0 for an empty range (summed by halves to keep the
\* evaluation shallow; the arithmetic is exact, so the order does not matter)
RECURSIVE SumRange(_, _, _)
SumRange(s, lo, hi) ==
    IF lo > hi THEN 0
    ELSE IF lo = hi THEN s[lo]
    ELSE LET mid == (lo + hi) \div 2
         IN  SumRange(s, lo, mid) + SumRange(s, mid + 1, hi)

\* builtin sum() over an iterable of floats, and Series.sum(); 0 for no elements
Sum(s) == SumRange(s, 1, Len(s))

\* variant of Round2: round(x, 1)
Round1(v) ==
    LET dime == 10 * Cent
        q == v \div dime
        r == v % dime
    IN  IF 2 * r < dime THEN q * dime
        ELSE IF 2 * r > dime THEN (q + 1) * dime
        ELSE IF q % 2 = 0 THEN q * dime ELSE (q + 1) * dime

\* round(x, 2): nearest multiple of 0.01, exact ties to the even hundredth
Round2(v) ==
    LET q == v \div Cent
        r == v % Cent
    IN  IF 2 * r < Cent THEN q * Cent
        ELSE IF 2 * r > Cent THEN (q + 1) * Cent
        ELSE IF q % 2 = 0 THEN q * Cent ELSE (q + 1) * Cent

DateTime(d, h, m, s, us) ==
    [day |-> d, hour |-> h, minute |-> m, second |-> s, microsecond |-> us]

\* dt + timedelta(days=n)
PlusDays(dt, n) == [dt EXCEPT !.day = dt.day + n]

\* dt.strftime(fmt) for the two formats of services.py
strftime(dt, fmt) ==
    IF fmt = DAY_FORMAT THEN <<dt.day>>
    ELSE <<dt.day, dt.hour, dt.minute, dt.second, "Z">>

\* pd.to_datetime of one ISO hour string "YYYY-MM-DDTHH:00", written <<day, hour>>
to_datetime(str) == DateTime(str[1], str[2], 0, 0, 0)

-----------------------------------------------------------------------------
(* DataFrames and Series *)

WeatherColumns == {"temp_air", "ghi", "dni", "dhi", "wind_speed"}

\* pd.DataFrame(): no columns, no rows
EmptyDataFrame == [columns |-> {}, index |-> <<>>, data |-> <<>>]

\* DataFrame.empty: any axis of length 0
IsEmpty(df) == df.columns = {} \/ Len(df.index) = 0

\* pd.Series(dtype=float)
EmptySeries == [index |-> <<>>, values |-> <<>>]

\* variant of Series: the index is dropped and replaced by a RangeIndex
Series_reset_index(index, values) ==
    [index |-> [i \in 1..Len(values) |-> [day |-> 0, hour |-> 0, minute |-> 0,
                                           second |-> 0, microsecond |-> i - 1]],
     values |-> values]

\* pd.Series(values, index=index)
Series(index, values) == [index |-> index, values |-> values]

\* len(series), len(df)
len(x) == Len(x.index)

\* result of a call: the exception that left it ("none" when it returned) and the value
Returned(v) == [exc |-> "none", value |-> v]
Raised(e) == [exc |-> e, value |-> NoValue]

\* An optional value (None or a list) is a tuple: <<>> for None, <<x>> for x
None == <<>>
Some(x) == <<x>>
IsNone(o) == Len(o) = 0
Val(o) == o[1]

\* pd.DataFrame({name: list-or-None}): lists must agree in length, a None is broadcast
\* to every row (an object column), and with no list at all the constructor cannot
\* size the frame.  The new frame has a RangeIndex.
pd_DataFrame(cols) ==
    LET names  == DOMAIN cols
        arrays == {c \in names : ~IsNone(cols[c])}
        lens   == {Len(Val(cols[c])) : c \in arrays}
    IN  IF arrays = {} THEN Raised("ValueError")
        ELSE IF Cardinality(lens) > 1 THEN Raised("ValueError")
        ELSE LET n == CHOOSE k \in lens : TRUE
             IN  Returned([columns |-> names,
                           index   |-> [i \in 1..n |-> i - 1],
                           data    |-> [c \in names |->
                                          IF IsNone(cols[c])
                                          THEN [dtype |-> "object", values |-> [i \in 1..n |-> "None"]]
                                          ELSE [dtype |-> "float64", values |-> Val(cols[c])]]])

\* df.index = new_index: the new index must have one label per row
set_index(df, new_index) ==
    IF Len(new_index) # Len(df.index) THEN Raised("ValueError")
    ELSE Returned([df EXCEPT !.index = new_index])

-----------------------------------------------------------------------------
(* OpenMeteoClient.get_forecast *)

\* does an except clause for class `clause` catch an exception of class `exc`:
\* ConnectionError and HTTPError are RequestExceptions, everything is an Exception
Catches(clause, exc) ==
    \/ clause = "Exception"
    \/ clause = exc
    \/ clause = "RequestException" /\ exc \in {"ConnectionError", "HTTPError"}
    \/ clause = "InvalidTokenError"
         /\ exc \in {"DecodeError", "InvalidSignatureError", "ExpiredSignatureError"}

\* requests.get, raise_for_status and response.json: the JSON document, or the
\* exception the transport, the status line or the decoder raises
http_get(resp) ==
    IF resp.kind = "transport_error" THEN Raised("ConnectionError")
    ELSE IF resp.kind = "http_error" THEN Raised("HTTPError")
    ELSE IF resp.kind = "bad_json" THEN Raised("JSONDecodeError")
    ELSE Returned(resp.data)

\* data.get("hourly", {}): the default {} only when the key is absent
data_get_hourly(data) ==
    IF data.hourly_is = "absent" THEN Some([k \in {} |-> None])
    ELSE IF data.hourly_is = "null" THEN None
    ELSE Some(data.hourly)

\* hourly.get(key)
hourly_get(hourly, key) == IF key \in DOMAIN hourly THEN hourly[key] ELSE None

\* `not x` for None or a list
Falsy(o) == IsNone(o) \/ Len(Val(o)) = 0

\* lines 39-55: the body of the try block once the document is decoded
parse_forecast(data) ==
    LET got == data_get_hourly(data)
    IN  IF IsNone(got) THEN Raised("AttributeError")
        ELSE
        LET hourly == Val(got)
            time   == hourly_get(hourly, "time")
        IN  IF Falsy(time) THEN Returned(EmptyDataFrame)
            ELSE LET df == pd_DataFrame(
                        [c \in WeatherColumns |->
                            CASE c = "temp_air"   -> hourly_get(hourly, "temperature_2m")
                              [] c = "ghi"        -> hourly_get(hourly, "shortwave_radiation")
                              [] c = "dni"        -> hourly_get(hourly, "direct_normal_irradiance")
                              [] c = "dhi"        -> hourly_get(hourly, "diffuse_radiation")
                              [] c = "wind_speed" -> hourly_get(hourly, "wind_speed_10m")])
                 IN  IF df.exc # "none" THEN df
                     ELSE set_index(df.value,
                                    [i \in 1..Len(Val(time)) |-> to_datetime(Val(time)[i])])

\* the try block, lines 34-55
try_get_forecast(resp) ==
    LET doc == http_get(resp)
    IN  IF doc.exc # "none" THEN doc ELSE parse_forecast(doc.value)

\* variant of ExceptClauses: only requests.RequestException is caught
ExceptClauses_request_only == <<"RequestException">>

\* the except clauses, lines 57-62: each returns pd.DataFrame()
ExceptClauses == <<"RequestException", "Exception">>

\* variant of get_forecast: no except clause, the exception leaves the function
get_forecast_uncaught(lat, lon, days, resp) == try_get_forecast(resp)

\* get_forecast, lines 23-62
get_forecast(lat, lon, days, resp) ==
    LET r == try_get_forecast(resp)
    IN  IF r.exc = "none" THEN r
        ELSE IF \E k \in 1..Len(ExceptClauses) : Catches(ExceptClauses[k], r.exc)
             THEN Returned(EmptyDataFrame)
             ELSE r

\* ForecastingService.get_weather_data
get_weather_data(sys, days, resp) == get_forecast(sys.latitude, sys.longitude, days, resp)

-----------------------------------------------------------------------------
(* pvlib, as far as predict_production uses it.  Panels are horizontal     *)
(* (tilt 0), where the isotropic transposition reduces to                  *)
(* poa_global = max(dni * cos(zenith), 0) + dhi and the ground term is 0.  *)

\* pvlib.solarposition.get_solarposition: cosine of the solar zenith angle per
\* timestamp, +1 with the sun overhead (hours 6..17) and -1 with it below the horizon
get_solarposition(index, latitude, longitude) ==
    [i \in 1..Len(index) |-> IF index[i].hour \in 6..17 THEN 1 ELSE -1]

\* a column read in arithmetic: an object column of None cannot be multiplied or added
Numeric(df, c) == df.data[c].dtype = "float64"

\* pvlib.irradiance.get_total_irradiance(...)['poa_global'], in 100 W/m2
get_total_irradiance(surface_tilt, cos_zenith, dni, ghi, dhi) ==
    [i \in 1..Len(dni) |-> Max(dni[i] * cos_zenith[i], 0) + dhi[i]]

\* variant of pvwatts_dc: the temperature term is missing
pvwatts_dc_no_temperature(g_poa_effective, temp_cell, pdc0, gamma_pdc) ==
    [i \in 1..Len(g_poa_effective) |-> g_poa_effective[i] * pdc0]

\* variant of pvwatts_dc: the temperature term is added to the irradiance term
pvwatts_dc_additive(g_poa_effective, temp_cell, pdc0, gamma_pdc) ==
    [i \in 1..Len(g_poa_effective) |->
        (pdc0 * (g_poa_effective[i] * 1000 + gamma_pdc * (temp_cell[i] - 25))) \div 1000]

\* pvlib.pvsystem.pvwatts_dc: g_poa/1000 * pdc0 * (1 + gamma_pdc * (temp_cell - 25)),
\* with g_poa in 100 W/m2, pdc0 in W, gamma_pdc in 1/1000 per degree; result in 0.1 W
pvwatts_dc(g_poa_effective, temp_cell, pdc0, gamma_pdc) ==
    [i \in 1..Len(g_poa_effective) |->
        (g_poa_effective[i] * pdc0 * (1000 + gamma_pdc * (temp_cell[i] - 25))) \div 1000]

-----------------------------------------------------------------------------
(* ForecastingService *)

\* variant of dc_power_of: the cell is as warm as the air
dc_power_of_air_temperature(poa_global, temp_air, kwp) ==
    pvwatts_dc(poa_global, temp_air, kwp * 1000, -3)

\* dc_power = pvlib.pvsystem.pvwatts_dc(g_poa_effective=poa['poa_global'],
\*     temp_cell=weather_df['temp_air'] + 3, pdc0=kwp * 1000, gamma_pdc=-0.003), in 0.1 W
dc_power_of(poa_global, temp_air, kwp) ==
    pvwatts_dc(poa_global, [i \in 1..Len(temp_air) |-> temp_air[i] + 3], kwp * 1000, -3)

\* variant of ac_power_of: negative power is clamped to 0
ac_power_of_clamped(dc_power) == [i \in 1..Len(dc_power) |-> Max(dc_power[i] * 95, 0)]

\* ac_power = dc_power * inverter_efficiency, with inverter_efficiency = 0.95:
\* 0.1 W * 95 / 100 is in mW, and a value in mW is the same number in micro-kW
ac_power_of(dc_power) == [i \in 1..Len(dc_power) |-> dc_power[i] * 95]

\* lines 85-126 of predict_production: [exc, value, solar], where solar counts the
\* get_solarposition calls made
predict_nonempty(sys, weather_df) ==
    IF ~(WeatherColumns \subseteq weather_df.columns)
    THEN [exc |-> "KeyError", value |-> NoValue, solar |-> 0]
    ELSE
    LET cos_zenith == get_solarposition(weather_df.index, sys.latitude, sys.longitude)
    IN  IF ~(Numeric(weather_df, "dni") /\ Numeric(weather_df, "ghi")
             /\ Numeric(weather_df, "dhi") /\ Numeric(weather_df, "temp_air"))
        THEN [exc |-> "TypeError", value |-> NoValue, solar |-> 1]
        ELSE
        LET poa_global == get_total_irradiance(sys.tilt, cos_zenith,
                                               weather_df.data["dni"].values,
                                               weather_df.data["ghi"].values,
                                               weather_df.data["dhi"].values)
            temp_air   == weather_df.data["temp_air"].values
            dc_power   == dc_power_of(poa_global, temp_air, sys.kwp)
            ac_power   == ac_power_of(dc_power)
            \* ac_power / 1000: a value in mW is the same number in micro-kW
            ac_power_kw == Series(weather_df.index, ac_power)
        IN  [exc |-> "none", value |-> ac_power_kw, solar |-> 1]

\* variant of predict_production: the early return for an empty table is missing
predict_production_unguarded(sys, weather_df) == predict_nonempty(sys, weather_df)

\* predict_production: lines 81-82, then the computation
predict_production(sys, weather_df) ==
    IF IsEmpty(weather_df)
    THEN [exc |-> "none", value |-> EmptySeries, solar |-> 0]
    ELSE predict_nonempty(sys, weather_df)

\* variant of calculate_energy_kwh: the sum of the values rounded to 2 decimals
calculate_energy_kwh_rounded(series) ==
    Sum([i \in 1..Len(series.values) |-> Round2(series.values[i])])

\* calculate_energy_kwh: power_series.sum()
calculate_energy_kwh(series) == Sum(series.values)

\* variant of replace_midnight: only the hour is reset
replace_midnight_hour_only(dt) == [dt EXCEPT !.hour = 0]

\* datetime.replace(hour=0, minute=0, second=0, microsecond=0)
replace_midnight(dt) == DateTime(dt.day, 0, 0, 0, 0)

\* variant of replace_hour: the hour of the report's start is kept
replace_hour_kept(dt, hour) == dt

\* datetime.replace(hour=hour)
replace_hour(dt, hour) == [dt EXCEPT !.hour = hour]

\* lines 178-184: one entry per element of the day's slice, hour = position in the slice
daily_forecasts(day_hours, day_date) ==
    [h \in 1..Len(day_hours) |->
        [timestamp |-> strftime(replace_hour(day_date, h - 1), DATETIME_FORMAT),
         power_kw  |-> Round2(day_hours[h])]]

\* variant of day_forecast: the slice ends one element early (day_end - 1)
day_forecast_short_slice(series, forecast_start, day_index) ==
    LET day_start == day_index * HoursPerDay
        day_end   == (day_index + 1) * HoursPerDay - 1
        day_hours == Slice(series.values, day_start, day_end)
        day_date  == PlusDays(forecast_start, day_index)
    IN  [day              |-> strftime(day_date, DAY_FORMAT),
         daily_energy_kwh |-> Round2(Sum(day_hours)),
         forecast         |-> daily_forecasts(day_hours, day_date)]

\* lines 163-190: the body of the loop over day_index
day_forecast(series, forecast_start, day_index) ==
    LET day_start == day_index * HoursPerDay
        day_end   == (day_index + 1) * HoursPerDay
        day_hours == Slice(series.values, day_start, day_end)
        day_date  == PlusDays(forecast_start, day_index)
        daily_energy == Sum(day_hours)
    IN  [day              |-> strftime(day_date, DAY_FORMAT),
         daily_energy_kwh |-> Round2(daily_energy),
         forecast         |-> daily_forecasts(day_hours, day_date)]

\* variant of build_forecast_list: the loop stops after the last day that has samples
build_forecast_list_nonempty_days(series, forecast_start) ==
    [k \in 1..Min(ForecastDays, (len(series) + HoursPerDay - 1) \div HoursPerDay) |->
        day_forecast(series, forecast_start, k - 1)]

\* lines 162, 186: for day_index in range(7): forecast_list.append(...)
build_forecast_list(series, forecast_start) ==
    [k \in 1..ForecastDays |-> day_forecast(series, forecast_start, k - 1)]

\* variant of too_long: the comparison is >= instead of >
too_long_ge(series) == len(series) >= MaxHours

\* line 153: the length check
too_long(series) == len(series) > MaxHours

\* variant of forecast_hours: the week's 168 hours whatever the series
forecast_hours_fixed(series) == MaxHours

\* line 197: 'forecast_hours': len(power_series)
forecast_hours(series) == len(series)

\* variant of format_forecast_response: forecast_to is computed from a second reading
\* of the clock, taken one microsecond after the first
format_forecast_response_second_reading(sid, series, utcnow) ==
    IF too_long(series) THEN Raised("ValueError")
    ELSE
    LET forecast_start == replace_midnight(utcnow)
        later == IF <<utcnow.hour, utcnow.minute, utcnow.second, utcnow.microsecond>>
                      = <<23, 59, 59, 999999>>
                 THEN DateTime(utcnow.day + 1, 0, 0, 0, 0)
                 ELSE [utcnow EXCEPT !.microsecond = utcnow.microsecond + 1]
    IN  Returned(
          [system_id        |-> sid,
           total_energy_kwh |-> Round2(calculate_energy_kwh(series)),
           forecast_from    |-> strftime(forecast_start, DATETIME_FORMAT),
           forecast_to      |-> strftime(PlusDays(replace_midnight(later), WindowDays),
                                         DATETIME_FORMAT),
           forecast_hours   |-> forecast_hours(series),
           forecast_list    |-> build_forecast_list(series, forecast_start)])

\* format_forecast_response, with utcnow the value datetime.now(timezone.utc) returns
format_forecast_response(sid, series, utcnow) ==
    IF too_long(series) THEN Raised("ValueError")
    ELSE
    LET total_energy_kwh == calculate_energy_kwh(series)
        forecast_start   == replace_midnight(utcnow)
    IN  Returned(
          [system_id        |-> sid,
           total_energy_kwh |-> Round2(total_energy_kwh),
           forecast_from    |-> strftime(forecast_start, DATETIME_FORMAT),
           forecast_to      |-> strftime(PlusDays(forecast_start, WindowDays), DATETIME_FORMAT),
           forecast_hours   |-> forecast_hours(series),
           forecast_list    |-> build_forecast_list(series, forecast_start)])

-----------------------------------------------------------------------------
(* Inputs *)

\* PV systems the engine is called with (kwp in kW, horizontal panels)
PVSystems ==
    { [id |-> 1, latitude |-> 48, longitude |-> 16, kwp |-> 5, tilt |-> 0, azimuth |-> 180],
      [id |-> 2, latitude |-> -33, longitude |-> 151, kwp |-> 1, tilt |-> 0, azimuth |-> 0] }

SystemIds == {1, 123}

\* the hour strings of an hourly time array of n entries starting at hour h0 of day d0
TimeArray(d0, h0, n) ==
    [i \in 1..n |-> <<d0 + ((h0 + i - 1) \div HoursPerDay), (h0 + i - 1) % HoursPerDay>>]

\* element i of an array that repeats `cycle`
Cyclic(cycle, n) == [i \in 1..n |-> cycle[((i - 1) % Len(cycle)) + 1]]

\* measurement arrays of n hours: temperature in degrees C, irradiance in 100 W/m2
Measurements(kind, n) ==
    IF kind = "clear"
    THEN [temperature_2m           |-> Some(Cyclic(<<22, 25, 30, 12, 21>>, n)),
          shortwave_radiation      |-> Some(Cyclic(<<9, 7, 0, 4, 10>>, n)),
          direct_normal_irradiance |-> Some(Cyclic(<<8, 5, 0, 3, 10>>, n)),
          diffuse_radiation        |-> Some(Cyclic(<<1, 2, 0, 1, 1>>, n)),
          wind_speed_10m           |-> Some(Cyclic(<<3, 4>>, n))]
    ELSE [temperature_2m           |-> Some(Cyclic(<<-10, 40, 22>>, n)),
          shortwave_radiation      |-> Some(Cyclic(<<0, 1, -1, 6>>, n)),
          direct_normal_irradiance |-> Some(Cyclic(<<-2, 1, 0, 5>>, n)),
          diffuse_radiation        |-> Some(Cyclic(<<0, 1, -1, 1, 3, 0, 2>>, n)),
          wind_speed_10m           |-> Some(Cyclic(<<0, 12, 5>>, n))]

MeasurementKinds == {"clear", "odd"}

Hourly(time, m) ==
    [time                     |-> time,
     temperature_2m           |-> m.temperature_2m,
     shortwave_radiation      |-> m.shortwave_radiation,
     direct_normal_irradiance |-> m.direct_normal_irradiance,
     diffuse_radiation        |-> m.diffuse_radiation,
     wind_speed_10m           |-> m.wind_speed_10m]

Ok(hourly_is, hourly) ==
    [kind |-> "ok", data |-> [hourly_is |-> hourly_is, hourly |-> hourly]]

NoHourly == Hourly(None, Measurements("clear", 0))

\* well-formed payloads: a time array of n hours and five arrays of n values
GoodResponses ==
    { Ok("object", Hourly(Some(TimeArray(d0h0[1], d0h0[2], n)), Measurements(k, n))) :
        d0h0 \in {<<0, 0>>, <<1, 10>>}, n \in 0..MaxLen, k \in MeasurementKinds }

\* the payload with one field changed
Without(hourly, key) == [hourly EXCEPT ![key] = None]

MeasurementKeys == {"temperature_2m", "shortwave_radiation", "direct_normal_irradiance",
                    "diffuse_radiation", "wind_speed_10m"}

\* malformed payloads: no time array, measurement arrays missing or of another length
BadResponses ==
    LET good(n) == Hourly(Some(TimeArray(0, 0, n)), Measurements("clear", n))
    IN  { Ok("object", Without(good(n), key)) :
            n \in 1..MaxBadLen, key \in MeasurementKeys \cup {"time"} }
        \cup { Ok("object", Hourly(Some(TimeArray(0, 0, n)),
                                   [k \in MeasurementKeys |-> None])) : n \in 1..MaxBadLen }
        \cup { Ok("object", Hourly(Some(TimeArray(0, 0, n)), Measurements("clear", n - 1))) :
                 n \in 1..MaxBadLen }
        \cup { Ok("object", [good(n) EXCEPT !.diffuse_radiation =
                                Some(Cyclic(<<1>>, n + 1))]) : n \in 1..MaxBadLen }
        \cup { Ok("absent", NoHourly), Ok("null", NoHourly),
               Ok("object", [k \in {} |-> None]) }

FailedResponses ==
    { [kind |-> k, data |-> [hourly_is |-> "absent", hourly |-> NoHourly]] :
        k \in {"transport_error", "http_error", "bad_json"} }

Responses == GoodResponses \cup BadResponses \cup FailedResponses

NoResponse == [kind |-> "none", data |-> [hourly_is |-> "absent", hourly |-> NoHourly]]

\* power series a caller builds itself (values in micro-kW), as the tests do
SeriesValues(kind, n) ==
    CASE kind = "ones"     -> Cyclic(<<1000000>>, n)
      [] kind = "mixed"    -> Cyclic(<<1500000, 2000000, 4000, -250000, 6000, 3500000, 994999>>, n)
      [] kind = "sparse4"  -> [i \in 1..n |-> IF (i - 1) % HoursPerDay = 0 THEN 4000 ELSE 0]
      [] kind = "eighths"  -> [i \in 1..n |-> IF (i - 1) % HoursPerDay = 0 THEN 125000 ELSE 0]

SeriesKinds == {"ones", "mixed", "sparse4", "eighths"}

\* the index of such a series: a RangeIndex, or hourly timestamps from 10:00 of day 1
SeriesIndex(kind, n) ==
    IF kind = "range" THEN [i \in 1..n |-> DateTime(0, 0, 0, 0, i - 1)]
    ELSE [i \in 1..n |-> to_datetime(TimeArray(1, 10, n)[i])]

IndexKinds == {"range", "hourly"}

\* instants the clock can show
Instants ==
    { DateTime(d, t[1], t[2], t[3], t[4]) :
        d \in 0..MaxDay, t \in {<<0, 0, 0, 0>>, <<23, 59, 59, 999999>>, <<13, 30, 7, 250>>} }

NoReport == [system_id |-> -1, total_energy_kwh |-> 0, forecast_from |-> <<>>,
             forecast_to |-> <<>>, forecast_hours |-> -1, forecast_list |-> <<>>]

NoTime == DateTime(-1, 0, 0, 0, 0)

NoSystem == [id |-> 0, latitude |-> 0, longitude |-> 0, kwp |-> 0, tilt |-> 0, azimuth |-> 0]

-----------------------------------------------------------------------------
(* Authentication (src/app/auth/auth_implementations.py).  A bearer token is a    *)
(* record: form "jwt" (three well-formed segments), "malformed" or "mock"         *)
(* ("mock-token-for-" followed by user_id); a jwt carries the secret it was       *)
(* signed with, whether its exp has passed, and its optional sub claim.           *)

\* self.jwt_secret = os.getenv("JWT_SECRET", "default-secret-key")
jwt_secret == "default-secret-key"

\* jwt.decode(token, key, algorithms=[HS256]): the payload, or the exception PyJWT
\* raises (segments are parsed first, then the signature, then the exp claim)
jwt_decode(token, key) ==
    IF token.form # "jwt" THEN Raised("DecodeError")
    ELSE IF token.secret # key THEN Raised("InvalidSignatureError")
    ELSE IF token.expired THEN Raised("ExpiredSignatureError")
    ELSE Returned([sub |-> token.sub])

\* not username, for username = payload.get("sub")
no_username(sub) == IsNone(sub) \/ Val(sub) = ""

\* db.query(User).filter(User.email == email).first()
first_user_by_email(db_users, email) ==
    LET found == {u \in db_users : u.email = email}
    IN  IF found = {} THEN None ELSE Some(CHOOSE u \in found : TRUE)

\* db.query(User).filter(User.id == user_id).first()
first_user_by_id(db_users, user_id) ==
    LET found == {u \in db_users : u.id = user_id}
    IN  IF found = {} THEN None ELSE Some(CHOOSE u \in found : TRUE)

\* db.add(user); db.commit(): users.id is the primary key and users.email is unique
commit_user(db_users, user) ==
    IF \E u \in db_users : u.id = user.id \/ u.email = user.email
    THEN [exc |-> "IntegrityError", users |-> db_users]
    ELSE [exc |-> "none", users |-> db_users \cup {user}]

\* variant of found_user: the lookup by email is skipped, a user is always created
found_user_never(db_users, email) == None

\* user = self.db_session.query(User).filter(User.email == username).first()
found_user(db_users, email) == first_user_by_email(db_users, email)

\* the try block of JWTAuthService.authenticate; new_id is str(uuid.uuid4())
try_authenticate(token, db_users, new_id) ==
    LET payload == jwt_decode(token, jwt_secret)
    IN  IF payload.exc # "none"
        THEN [exc |-> payload.exc, user |-> None, users |-> db_users]
        ELSE
        LET username == payload.value.sub
        IN  IF no_username(username)
            THEN [exc |-> "none", user |-> None, users |-> db_users]
            ELSE
            LET user == found_user(db_users, Val(username))
            IN  IF ~IsNone(user)
                THEN [exc |-> "none", user |-> user, users |-> db_users]
                ELSE
                LET created   == [id |-> new_id, email |-> Val(username)]
                    committed == commit_user(db_users, created)
                IN  IF committed.exc # "none"
                    THEN [exc |-> committed.exc, user |-> None, users |-> db_users]
                    ELSE [exc |-> "none", user |-> Some(created),
                          users |-> committed.users]

\* variant of AuthExceptClauses: only the expired token is caught
AuthExceptClauses_expired_only == <<"ExpiredSignatureError">>

\* the except clauses of JWTAuthService.authenticate, in order
AuthExceptClauses == <<"ExpiredSignatureError", "InvalidTokenError", "Exception">>

\* JWTAuthService.authenticate: every except clause returns None
JWTAuthService_authenticate(token, db_users, new_id) ==
    LET r == try_authenticate(token, db_users, new_id)
    IN  IF r.exc = "none" THEN r
        ELSE IF \E k \in 1..Len(AuthExceptClauses) : Catches(AuthExceptClauses[k], r.exc)
        THEN [exc |-> "none", user |-> None, users |-> r.users]
        ELSE r

\* variant of MockAuthService_authenticate: an unknown user id is registered
MockAuthService_authenticate_registering(token, db_users) ==
    IF token.form = "mock"
    THEN LET user == [id |-> token.user_id, email |-> token.user_id]
         IN  [exc |-> "none", user |-> Some(user), users |-> db_users \cup {user}]
    ELSE [exc |-> "none", user |-> None, users |-> db_users]

\* MockAuthService.authenticate
MockAuthService_authenticate(token, db_users) ==
    IF token.form = "mock"
    THEN [exc |-> "none", user |-> first_user_by_id(db_users, token.user_id),
          users |-> db_users]
    ELSE [exc |-> "none", user |-> None, users |-> db_users]

\* get_auth_service(db).get_current_user(token): the service chosen by TESTING
auth_get_current_user(testing, token, db_users, new_id) ==
    IF testing = "true"
    THEN MockAuthService_authenticate(token, db_users)
    ELSE JWTAuthService_authenticate(token, db_users, new_id)

\* variant of credentials_missing: the check for missing credentials is skipped
credentials_missing_never(credentials) == FALSE

\* not credentials, for the value HTTPBearer(auto_error=False) hands over
credentials_missing(credentials) == IsNone(credentials)

\* the dependency get_current_user of main.py: the user, or the HTTPException raised;
\* credentials.credentials of a missing header would be an AttributeError
get_current_user(testing, credentials, db_users, new_id) ==
    IF credentials_missing(credentials)
    THEN [status |-> 401, detail |-> "Not authenticated", user |-> None,
          users |-> db_users]
    ELSE IF IsNone(credentials)
    THEN [status |-> 500, detail |-> "Internal Server Error", user |-> None,
          users |-> db_users]
    ELSE
    LET r == auth_get_current_user(testing, Val(credentials), db_users, new_id)
    IN  IF r.exc # "none"
        THEN [status |-> 500, detail |-> "Internal Server Error", user |-> None,
              users |-> r.users]
        ELSE IF IsNone(r.user)
        THEN [status |-> 401, detail |-> "Could not validate credentials",
              user |-> None, users |-> r.users]
        ELSE [status |-> 200, detail |-> "", user |-> r.user, users |-> r.users]

-----------------------------------------------------------------------------
(* Request models (src/app/models.py) and the endpoints (src/app/main.py).        *)
(* Coordinates and angles are whole degrees, kwp whole kW.                        *)

\* latitude: float = Field(..., ge=-90, le=90)
latitude_ok(v) == v >= -90 /\ v <= 90

\* longitude: float = Field(..., ge=-180, le=180)
longitude_ok(v) == v >= -180 /\ v <= 180

\* variant of kwp_ok: ge=0 in place of gt=0
kwp_ok_ge(v) == v >= 0

\* kwp: float = Field(..., gt=0)
kwp_ok(v) == v > 0

\* tilt: float = Field(..., ge=0, le=90)
tilt_ok(v) == v >= 0 /\ v <= 90

\* azimuth: float = Field(..., ge=0, lt=360)
azimuth_ok(v) == v >= 0 /\ v < 360

\* validation of a PVSystemCreate body
PVSystemCreate(body) ==
    IF /\ latitude_ok(body.latitude)
       /\ longitude_ok(body.longitude)
       /\ kwp_ok(body.kwp)
       /\ tilt_ok(body.tilt)
       /\ azimuth_ok(body.azimuth)
    THEN Returned(body)
    ELSE Raised("ValidationError")

\* variant of days_ok: le=8 in place of le=7
days_ok_le8(v) == v >= 1 /\ v <= 8

\* days: int = Field(default=7, ge=1, le=7): the constraint
days_ok(v) == v >= 1 /\ v <= 7

\* validation of a ForecastRequest body: days is optional and defaults to 7
ForecastRequest(days) ==
    IF IsNone(days) THEN Returned([days |-> 7])
    ELSE IF days_ok(Val(days)) THEN Returned([days |-> Val(days)])
    ELSE Raised("ValidationError")

\* serialisation of a PVSystem row by response_model=PVSystemRead
PVSystemRead(row) ==
    [id |-> row.id, user_id |-> row.user_id, name |-> row.name,
     latitude |-> row.latitude, longitude |-> row.longitude, kwp |-> row.kwp,
     tilt |-> row.tilt, azimuth |-> row.azimuth]

\* the answer of the application to one request, and the tables after it
Answer(status, detail, body, db_users, db_systems, handler, fetches) ==
    [response |-> [status |-> status, detail |-> detail, body |-> body],
     users |-> db_users, systems |-> db_systems,
     effects |-> [handler |-> handler, weather_fetches |-> fetches, forecast_days |-> 0]]

\* user_id=current_user.id
owner_of(db_users, current_user) == current_user.id

\* POST /systems: dependencies, body validation, then create_pv_system
post_systems(req, testing, db_users, db_systems, new_id) ==
    LET auth == get_current_user(testing, req.credentials, db_users, new_id)
        system == PVSystemCreate(req.config)
    IN  IF auth.status # 200
        THEN Answer(auth.status, auth.detail, <<>>, auth.users, db_systems, "none", 0)
        ELSE IF system.exc # "none"
        THEN Answer(422, "validation error", <<>>, auth.users, db_systems, "none", 0)
        ELSE
        LET db_system == [id |-> Len(db_systems) + 1,
                          user_id |-> owner_of(auth.users, Val(auth.user)),
                          name |-> system.value.name,
                          latitude |-> system.value.latitude,
                          longitude |-> system.value.longitude,
                          kwp |-> system.value.kwp,
                          tilt |-> system.value.tilt,
                          azimuth |-> system.value.azimuth]
        IN  Answer(201, "", <<PVSystemRead(db_system)>>, auth.users,
                   Append(db_systems, db_system), "create_pv_system", 0)

\* variant of systems_of: the filter on user_id is missing
systems_of_all(db_systems, user_id) == db_systems

\* db.query(PVSystem).filter(PVSystem.user_id == current_user.id).all()
systems_of(db_systems, user_id) ==
    SelectSeq(db_systems, LAMBDA row : row.user_id = user_id)

\* GET /systems: dependencies, then get_user_systems
get_systems(req, testing, db_users, db_systems, new_id) ==
    LET auth == get_current_user(testing, req.credentials, db_users, new_id)
    IN  IF auth.status # 200
        THEN Answer(auth.status, auth.detail, <<>>, auth.users, db_systems, "none", 0)
        ELSE
        LET rows == systems_of(db_systems, Val(auth.user).id)
        IN  Answer(200, "", [i \in 1..Len(rows) |-> PVSystemRead(rows[i])],
                   auth.users, db_systems, "get_user_systems", 0)

\* variant of first_system: the filter on user_id is missing
first_system_of_anyone(db_systems, sid, user_id) ==
    LET rows == SelectSeq(db_systems, LAMBDA row : row.id = sid)
    IN  IF rows = <<>> THEN None ELSE Some(rows[1])

\* db.query(PVSystem).filter(PVSystem.id == system_id,
\*                           PVSystem.user_id == current_user.id).first()
first_system(db_systems, sid, user_id) ==
    LET rows == SelectSeq(db_systems, LAMBDA row : row.id = sid /\ row.user_id = user_id)
    IN  IF rows = <<>> THEN None ELSE Some(rows[1])

\* variant of weather_window: the days of the request body are passed on
weather_window_requested(body) == body.days

\* line 74, get_weather_data(pv_system, days=7): the days of the body are not read
weather_window(body) == 7

\* the answer of a handler whose weather fetch sent forecast_days = days
Fetched(a, days) == [a EXCEPT !.effects.forecast_days = days]

\* the body of forecast_production once the system is loaded (lines 74-77); an
\* exception leaving the handler is answered with 500.  The transposition of the
\* engine is that of a horizontal panel whatever the tilt stored.
forecast_production(sid, body, pv, db_users, db_systems, resp, utcnow) ==
    LET days         == weather_window(body)
        weather_data == get_weather_data(pv, days, resp)
    IN  IF weather_data.exc # "none"
        THEN Fetched(Answer(500, "Internal Server Error", <<>>, db_users, db_systems,
                            "forecast_production", 1), days)
        ELSE
        LET power_forecast == predict_production(pv, weather_data.value)
        IN  IF power_forecast.exc # "none"
            THEN Fetched(Answer(500, "Internal Server Error", <<>>, db_users, db_systems,
                                "forecast_production", 1), days)
            ELSE
            LET formatted == format_forecast_response(sid, power_forecast.value, utcnow)
            IN  IF formatted.exc # "none"
                THEN Fetched(Answer(500, "Internal Server Error", <<>>, db_users,
                                    db_systems, "forecast_production", 1), days)
                ELSE Fetched(Answer(200, "", <<formatted.value>>, db_users, db_systems,
                                    "forecast_production", 1), days)

\* POST /forecast/production/{system_id} up to the lookup of the system (lines 57-71):
\* dependencies, body validation, the query; loaded is the system found, if any
forecast_production_lookup(req, testing, db_users, db_systems, new_id) ==
    LET auth == get_current_user(testing, req.credentials, db_users, new_id)
        body == ForecastRequest(req.days)
    IN  IF auth.status # 200
        THEN [loaded |-> None,
              answer |-> Answer(auth.status, auth.detail, <<>>, auth.users, db_systems,
                                "none", 0)]
        ELSE IF body.exc # "none"
        THEN [loaded |-> None,
              answer |-> Answer(422, "validation error", <<>>, auth.users, db_systems,
                                "none", 0)]
        ELSE
        LET found == first_system(db_systems, req.system_id, Val(auth.user).id)
        IN  [loaded |-> found,
             answer |-> Answer(404, "PV System not found", <<>>, auth.users, db_systems,
                               "forecast_production", 0)]

-----------------------------------------------------------------------------
(* Requests drawn for the endpoints *)

Emails == {"test@example.com", "user2@example.com"}

\* the user the test fixtures insert before the first request
TestUser == [id |-> "test-user-123", email |-> "test@example.com"]

\* str(uuid.uuid4()) values
Uuids == {"uuid-1", "uuid-2", "uuid-3"}

\* str(uuid.uuid4()): an id no user has (which one is immaterial)
uuid4(db_users) == CHOOSE id \in Uuids : \A u \in db_users : u.id # id

Jwt(sub, secret, expired) ==
    [form |-> "jwt", secret |-> secret, expired |-> expired, sub |-> sub, user_id |-> ""]

MockToken(user_id) ==
    [form |-> "mock", secret |-> "", expired |-> FALSE, sub |-> None, user_id |-> user_id]

\* tokens jwt.decode accepts and that name a user
ValidTokens == { Jwt(Some(e), jwt_secret, FALSE) : e \in Emails }

\* tokens JWTAuthService cannot resolve: expired, signed with another secret, without
\* sub, with an empty sub, not a JWT at all
InvalidTokens ==
    { Jwt(Some("test@example.com"), jwt_secret, TRUE),
      Jwt(Some("test@example.com"), "wrong-secret", FALSE),
      Jwt(None, jwt_secret, FALSE),
      Jwt(Some(""), jwt_secret, FALSE),
      [form |-> "malformed", secret |-> "", expired |-> FALSE, sub |-> None,
       user_id |-> ""] }

MockTokens == { MockToken(TestUser.id), MockToken("nobody") }

Tokens == ValidTokens \cup InvalidTokens \cup MockTokens

\* tokens one of the two auth services can resolve to a user
ResolvableTokens == ValidTokens \cup {MockToken(TestUser.id)}

\* what HTTPBearer(auto_error=False) hands over: None without a bearer header
Credentials == {None} \cup { Some(t) : t \in Tokens }

Config(name, latitude, longitude, kwp, tilt, azimuth) ==
    [name |-> name, latitude |-> latitude, longitude |-> longitude, kwp |-> kwp,
     tilt |-> tilt, azimuth |-> azimuth]

\* configurations inside the ranges, the extremes included
ValidConfigs ==
    { Config("North Pole System", 90, 180, 5, 90, 0),
      Config("South Pole System", -90, -180, 1, 0, 359) }

\* configurations with one field outside its range
InvalidConfigs ==
    { Config("Invalid System", 48, 16, -5, 35, 180),
      Config("Invalid System", 48, 16, 0, 35, 180),
      Config("Invalid Latitude System", 91, 16, 5, 35, 180),
      Config("Invalid Latitude System", -91, 16, 5, 35, 180),
      Config("Invalid Longitude System", 48, 181, 5, 35, 180),
      Config("Invalid Longitude System", 48, -181, 5, 35, 180),
      Config("Invalid Tilt System", 48, 16, 5, -1, 180),
      Config("Invalid Tilt System", 48, 16, 5, 91, 180),
      Config("Invalid Azimuth System", 48, 16, 5, 35, 360),
      Config("Invalid Azimuth System", 48, 16, 5, 35, -1) }

Configs == ValidConfigs \cup InvalidConfigs

NoConfig == Config("", 0, 0, 0, 0, 0)

\* the days field of a forecast request body: omitted, or a number
DaysValues == {None, Some(0), Some(1), Some(7), Some(8)}

Request(endpoint, credentials, config, sid, days) ==
    [endpoint |-> endpoint, credentials |-> credentials, config |-> config,
     system_id |-> sid, days |-> days]

NoRequest == Request("none", None, NoConfig, 0, None)

\* POST /systems: every configuration with a resolvable token, and one valid and one
\* invalid configuration with every other header
CreateRequests ==
    { Request("POST /systems", Some(t), config, 0, None) :
        t \in ResolvableTokens, config \in Configs }
    \cup { Request("POST /systems", c, config, 0, None) :
             c \in Credentials,
             config \in { Config("North Pole System", 90, 180, 5, 90, 0),
                          Config("Invalid System", 48, 16, 0, 35, 180) } }

\* GET /systems
ListRequests == { Request("GET /systems", c, NoConfig, 0, None) : c \in Credentials }

\* POST /forecast/production/{system_id}: with a resolvable token every days value for
\* system 1 and the default body for every other id, and two bodies with every other
\* header
ForecastRequests ==
    { Request("POST /forecast/production", Some(t), NoConfig, 1, days) :
        t \in ResolvableTokens, days \in DaysValues }
    \cup { Request("POST /forecast/production", Some(t), NoConfig, sid, None) :
             t \in ResolvableTokens, sid \in 1..MaxSystems }
    \cup { Request("POST /forecast/production", c, NoConfig, 1, days) :
             c \in Credentials, days \in {None, Some(8)} }

NoAnswer == [status |-> 0, detail |-> "", body |-> <<>>]

NoEffects == [handler |-> "none", weather_fetches |-> 0, forecast_days |-> 0,
              users_added |-> {}]

\* what Open-Meteo answers to the forecast endpoint: ApiHours hours of either kind of
\* measurement, a body without one measurement array, a transport failure
ApiResponses ==
    { Ok("object", Hourly(Some(TimeArray(0, 10, ApiHours)), Measurements(k, ApiHours))) :
        k \in MeasurementKinds }
    \cup { Ok("object", Without(Hourly(Some(TimeArray(0, 0, 1)), Measurements("clear", 1)),
                                "shortwave_radiation")),
           [kind |-> "transport_error",
            data |-> [hourly_is |-> "absent", hourly |-> NoHourly]] }

ApiInstants == { DateTime(0, 13, 30, 7, 250) }

-----------------------------------------------------------------------------
(* The state machine: one caller running the pipeline of forecast_production, or  *)
(* calling the engine functions directly with a series of its own                 *)

EngineIdle ==
    /\ pc = "start"
    /\ pv_system = NoSystem
    /\ upstream = NoResponse
    /\ weather = EmptyDataFrame
    /\ power_series = EmptySeries
    /\ solar_calls = 0
    /\ energy = 0
    /\ report = NoReport
    /\ raised = "none"
    /\ now = NoTime
    /\ system_id = 0

\* no request has been answered
ApiIdle ==
    /\ users = {}
    /\ systems = <<>>
    /\ env_testing = "false"
    /\ request = NoRequest
    /\ response = NoAnswer
    /\ effects = NoEffects

NoSamples == [pc |-> "idle", poa_global |-> <<>>, temp_air |-> <<>>, kwp |-> 0,
              dc_power |-> <<>>, ac_power_kw |-> <<>>]

\* the power model has not been applied
PowerModelIdle == power_model = NoSamples

\* concurrent forecast invocations and concurrent authenticate calls
Invocations == 1..MaxInvocations

\* ForecastingService(): __init__ sets weather_client = OpenMeteoClient()
ForecastingService_init ==
    [weather_client |-> [BASE_URL |-> "https://api.open-meteo.com/v1/forecast"]]

\* the local variables of forecast_production before the call
NoCall == [pc |-> "idle", system_id |-> 0, pv_system |-> NoSystem, resp |-> NoResponse,
           weather_data |-> EmptyDataFrame, power_forecast |-> EmptySeries,
           utcnow |-> NoTime, raised |-> "none", result |-> NoReport]

\* an authenticate call that has not started
NoSession == [pc |-> "idle", worker |-> "", token |-> Jwt(None, "", FALSE),
              created |-> None, user |-> None, status |-> 0]

ServiceIdle == service = ForecastingService_init /\ calls = [i \in Invocations |-> NoCall]

SessionsIdle == sessions = [s \in Invocations |-> NoSession]

TasksIdle == ServiceIdle /\ SessionsIdle

Init == EngineIdle /\ ApiIdle /\ PowerModelIdle /\ TasksIdle

\* weather_data = service.get_weather_data(pv_system, days=7)
GetWeatherData ==
    /\ pc = "start"
    /\ \E sys \in PVSystems, resp \in Responses :
         LET r == get_weather_data(sys, 7, resp)
         IN  /\ pv_system' = sys
             /\ upstream' = resp
             /\ raised' = r.exc
             /\ IF r.exc = "none"
                THEN weather' = r.value /\ pc' = "fetched"
                ELSE weather' = weather /\ pc' = "fetch_failed"
    /\ UNCHANGED <<power_series, solar_calls, energy, report, now, system_id>>
    /\ UNCHANGED <<apiVars, power_model, taskVars>>

\* power_forecast = service.predict_production(pv_system, weather_data)
PredictProduction ==
    /\ pc = "fetched"
    /\ LET r == predict_production(pv_system, weather)
       IN  /\ raised' = r.exc
           /\ solar_calls' = solar_calls + r.solar
           /\ IF r.exc = "none"
              THEN power_series' = r.value /\ pc' = "predicted"
              ELSE power_series' = power_series /\ pc' = "predict_failed"
    /\ UNCHANGED <<pv_system, upstream, weather, energy, report, now, system_id>>
    /\ UNCHANGED <<apiVars, power_model, taskVars>>

\* a caller builds a pd.Series of its own
SupplySeries ==
    /\ pc = "start"
    /\ \E k \in SeriesKinds, ix \in IndexKinds, n \in 0..MaxLen :
         power_series' = Series(SeriesIndex(ix, n), SeriesValues(k, n))
    /\ pc' = "supplied"
    /\ UNCHANGED <<pv_system, upstream, weather, solar_calls, energy, report, raised, now,
                   system_id>>
    /\ UNCHANGED <<apiVars, power_model, taskVars>>

\* service.calculate_energy_kwh(power_series), called directly
CalculateEnergyKwh ==
    /\ pc \in {"predicted", "supplied"}
    /\ energy' = calculate_energy_kwh(power_series)
    /\ pc' = "summed"
    /\ UNCHANGED <<pv_system, upstream, weather, power_series, solar_calls, report, raised,
                   now, system_id>>
    /\ UNCHANGED <<apiVars, power_model, taskVars>>

\* response = service.format_forecast_response(system_id, power_forecast); the endpoint
\* passes the id of the system it loaded, a direct caller any id
FormatForecastResponse ==
    /\ pc \in {"predicted", "supplied"}
    /\ \E sid \in (IF pc = "predicted" THEN {pv_system.id} ELSE SystemIds),
          utcnow \in Instants :
         LET r == format_forecast_response(sid, power_series, utcnow)
         IN  /\ system_id' = sid
             /\ now' = utcnow
             /\ raised' = r.exc
             /\ IF r.exc = "none"
                THEN report' = r.value /\ pc' = "done"
                ELSE report' = report /\ pc' = "format_failed"
    /\ UNCHANGED <<pv_system, upstream, weather, power_series, solar_calls, energy>>
    /\ UNCHANGED <<apiVars, power_model, taskVars>>

Next ==
    \/ GetWeatherData
    \/ PredictProduction
    \/ SupplySeries
    \/ CalculateEnergyKwh
    \/ FormatForecastResponse

Spec == Init /\ [][Next]_vars

-----------------------------------------------------------------------------
(* The application: requests answered one after the other by the endpoints of     *)
(* src/app/main.py over one database                                              *)

ApiInit ==
    /\ EngineIdle
    /\ PowerModelIdle
    /\ TasksIdle
    /\ users \in {{}, {TestUser}}
    /\ systems = <<>>
    /\ env_testing \in {"true", "false"}
    /\ request = NoRequest
    /\ response = NoAnswer
    /\ effects = NoEffects

\* the tables and the answer after one request
Recorded(req, a) ==
    /\ request' = req
    /\ response' = a.response
    /\ users' = a.users
    /\ systems' = a.systems
    /\ effects' = [handler         |-> a.effects.handler,
                   weather_fetches |-> a.effects.weather_fetches,
                   forecast_days   |-> a.effects.forecast_days,
                   users_added     |-> a.users \ users]
    /\ UNCHANGED <<env_testing, power_model, taskVars>>
    /\ UNCHANGED <<pc, pv_system, weather, power_series, solar_calls, energy, report,
                   raised, now, system_id>>

\* a request answered without a call to Open-Meteo
Answered(req, a) == Recorded(req, a) /\ upstream' = NoResponse

\* POST /systems; the table holds MaxSystems rows at most
PostSystems ==
    \E req \in CreateRequests :
      \E answer \in {post_systems(req, env_testing, users, systems, uuid4(users))} :
        /\ Len(answer.systems) <= MaxSystems
        /\ Answered(req, answer)

\* GET /systems
GetSystems ==
    \E req \in ListRequests :
      \E answer \in {get_systems(req, env_testing, users, systems, uuid4(users))} :
        Answered(req, answer)

\* POST /forecast/production/{system_id}: the upstream and the clock are met only
\* when the handler gets to the pipeline; upstream holds what Open-Meteo answered
PostForecastProduction ==
    \E req \in ForecastRequests :
      \E looked \in {forecast_production_lookup(req, env_testing, users, systems,
                                                uuid4(users))} :
        IF IsNone(looked.loaded)
        THEN Answered(req, looked.answer)
        ELSE \E resp \in ApiResponses, utcnow \in ApiInstants :
               \E answer \in {forecast_production(req.system_id,
                                                  ForecastRequest(req.days).value,
                                                  Val(looked.loaded),
                                                  looked.answer.users,
                                                  looked.answer.systems, resp, utcnow)} :
                 Recorded(req, answer) /\ upstream' = resp

ApiNext ==
    \/ PostSystems
    \/ GetSystems
    \/ PostForecastProduction

ApiSpec == ApiInit /\ [][ApiNext]_vars


-----------------------------------------------------------------------------
(* Properties *)

\* format_forecast_response has been called (it is the only reader of the clock)
FormatCalled == now # NoTime

\* format_forecast_response returned a report
Reported == pc = "done"

\* predict_production has been called and raised
PredictRaised == pc = "predict_failed"

\* number of hour entries of bucket d (0..6) of the report
Hours(d) == Len(report.forecast_list[d + 1].forecast)

\* C1: for every power series of 0..168 samples, format_forecast_response returns a
\* report whose forecast_list has exactly 7 day entries
C1_ReportShape ==
    (FormatCalled /\ len(power_series) <= 168)
        => (Reported /\ raised = "none" /\ Len(report.forecast_list) = 7)

\* C1 witness: a report of 7 buckets for a series of 3 samples
C1_Witness ==
    Reported /\ len(power_series) = 3 /\ Len(report.forecast_list) = 7

\* C2: a series of more than 168 samples makes format_forecast_response raise a
\* ValueError and return no report (no truncated report either); 168 samples are accepted
C2_OverflowRejected ==
    /\ (FormatCalled /\ len(power_series) > 168)
          => (pc = "format_failed" /\ raised = "ValueError" /\ report = NoReport)
    /\ (FormatCalled /\ len(power_series) = 168)
          => (Reported /\ raised = "none" /\ report.forecast_hours = 168)

\* C2 witness: the call with 169 samples has raised
C2_Witness ==
    FormatCalled /\ len(power_series) = 169 /\ raised = "ValueError" /\ pc = "format_failed"

\* C3: bucket d holds the samples at positions 24d .. min(24d+24, len)-1 in input order
\* (as rounded power_kw entries), so it has max(0, min(24, len - 24d)) entries; the
\* bucket sizes add up to len; a bucket past the end is empty with daily energy 0
C3_PositionalBucketing ==
    Reported =>
        LET n == len(power_series)
        IN  /\ \A d \in 0..6 :
                 LET b == report.forecast_list[d + 1]
                 IN  /\ Len(b.forecast) = Max(0, Min(24, n - 24 * d))
                     /\ \A h \in 1..Len(b.forecast) :
                          b.forecast[h].power_kw = Round2(power_series.values[24 * d + h])
                     /\ (24 * d >= n) => (b.forecast = <<>> /\ b.daily_energy_kwh = 0)
            /\ Hours(0) + Hours(1) + Hours(2) + Hours(3) + Hours(4) + Hours(5) + Hours(6) = n

\* C3 witness: a series that ends inside day 4 (100 samples): buckets 0..3 full,
\* bucket 4 holds 4 entries, buckets 5 and 6 are empty
C3_Witness ==
    /\ Reported /\ len(power_series) = 100
    /\ Hours(3) = 24 /\ Hours(4) = 4 /\ Hours(5) = 0 /\ Hours(6) = 0

\* the sum of the rounded power_kw entries shown in the report
SumOfShownPower ==
    Sum([k \in 1..7 |->
            Sum([h \in 1..Len(report.forecast_list[k].forecast) |->
                    report.forecast_list[k].forecast[h].power_kw])])

\* C4: total_energy_kwh is the sum of all unrounded samples, rounded to 2 decimals, and
\* each daily_energy_kwh is the sum of the unrounded samples of its slice, rounded
C4_EnergyFromUnrounded ==
    Reported =>
        /\ report.total_energy_kwh = Round2(SumRange(power_series.values, 1, len(power_series)))
        /\ \A d \in 0..6 :
             report.forecast_list[d + 1].daily_energy_kwh =
                 Round2(SumRange(power_series.values, 24 * d + 1,
                                 Min(24 * d + 24, len(power_series))))

\* C4 witness: a report whose total differs from the sum of the rounded entries shown
C4_Witness ==
    /\ Reported /\ len(power_series) > 24
    /\ report.total_energy_kwh # Round2(SumOfShownPower)
    /\ report.forecast_list[1].daily_energy_kwh #
         Round2(Sum([h \in 1..Hours(0) |-> report.forecast_list[1].forecast[h].power_kw]))

\* C5: for a non-empty weather table predict_production returns a series of the same
\* length that carries the table's timestamps in the table's order; it raises only on
\* a table with a measurement column of None
C5_IndexAligned ==
    /\ (pc = "predicted" /\ ~IsEmpty(weather))
          => /\ len(power_series) = len(weather)
             /\ Len(power_series.values) = len(weather)
             /\ power_series.index = weather.index
    /\ PredictRaised
          => /\ ~IsEmpty(weather)
             /\ \E c \in {"dni", "ghi", "dhi", "temp_air"} : ~Numeric(weather, c)

\* C5 witness: a full week of 168 hourly rows gives 168 samples labelled alike
C5_Witness ==
    /\ pc = "predicted" /\ len(weather) = 168 /\ len(power_series) = 168
    /\ power_series.index[168] = weather.index[168]
    /\ weather.index[1] = to_datetime(<<1, 10>>)

\* C6: on an empty weather table predict_production returns an empty series, does not
\* raise and makes no solar position call; calculate_energy_kwh of an empty series is 0
C6_EmptyPropagation ==
    /\ (pc = "predicted" /\ IsEmpty(weather))
          => (power_series = EmptySeries /\ solar_calls = 0 /\ raised = "none")
    /\ PredictRaised => ~IsEmpty(weather)
    /\ (pc = "summed" /\ len(power_series) = 0) => energy = 0

\* C6 witness: the fetch failed, predict_production returned the empty series and
\* calculate_energy_kwh was called on it
C6_Witness ==
    /\ pc = "summed" /\ upstream.kind = "transport_error" /\ IsEmpty(weather)
    /\ power_series = EmptySeries /\ energy = 0 /\ solar_calls = 0

\* the "time" entry of the payload get_forecast decoded
UpstreamTime == hourly_get(upstream.data.hourly, "time")

\* the payload has no usable time array
TimeMissing == upstream.data.hourly_is # "object" \/ Falsy(UpstreamTime)

\* the payload has a non-empty time array and five arrays of that length
WellFormed ==
    /\ upstream.kind = "ok" /\ ~TimeMissing
    /\ \A k \in MeasurementKeys :
         /\ ~IsNone(hourly_get(upstream.data.hourly, k))
         /\ Len(Val(hourly_get(upstream.data.hourly, k))) = Len(Val(UpstreamTime))

\* C7: get_forecast never raises; after a transport error, an HTTP error status, an
\* undecodable body or a payload without a non-empty time array the table is empty; a
\* non-empty table has the five columns and one row per timestamp returned, labelled
\* with these timestamps; a well-formed payload gives such a table with its values
C7_NeverRaises ==
    upstream.kind # "none" =>
        /\ pc # "fetch_failed"
        /\ (upstream.kind # "ok" \/ TimeMissing) => IsEmpty(weather)
        /\ ~IsEmpty(weather) =>
              /\ weather.columns = {"temp_air", "ghi", "dni", "dhi", "wind_speed"}
              /\ len(weather) = Len(Val(UpstreamTime))
              /\ \A i \in 1..len(weather) :
                   weather.index[i] = to_datetime(Val(UpstreamTime)[i])
        /\ WellFormed =>
              /\ ~IsEmpty(weather)
              /\ weather.data["temp_air"].values = Val(upstream.data.hourly.temperature_2m)
              /\ weather.data["dhi"].values = Val(upstream.data.hourly.diffuse_radiation)

\* C7 witness: a payload with a time array of 2 hours and no measurement array at all
\* (the DataFrame constructor raises) has been turned into the empty table
C7_Witness ==
    /\ pc = "fetched" /\ upstream.kind = "ok" /\ ~TimeMissing
    /\ Len(Val(UpstreamTime)) = 2
    /\ \A k \in MeasurementKeys : IsNone(hourly_get(upstream.data.hourly, k))
    /\ IsEmpty(weather)

\* the sum of the seven daily_energy_kwh values of the report
SumOfDaily == Sum([k \in 1..7 |-> report.forecast_list[k].daily_energy_kwh])

Abs(x) == IF x < 0 THEN -x ELSE x

\* C8 as stated: total_energy_kwh equals the sum of the seven daily_energy_kwh values
\* rounded to 2 decimals
C8_ExactAdditivity ==
    Reported => report.total_energy_kwh = Round2(SumOfDaily)

\* C8 amended: total_energy_kwh and the sum of the seven daily_energy_kwh values differ
\* by at most 0.04 kWh (eight independent roundings of at most 0.005 each)
C8_AdditivityWithinTolerance ==
    Reported => Abs(report.total_energy_kwh - SumOfDaily) <= 4 * Cent

\* C8 witness: a report where the two differ by the full 0.04 kWh
C8_Witness ==
    Reported /\ len(power_series) = 168 /\ report.total_energy_kwh - SumOfDaily = 4 * Cent

\* C9: forecast_from is 00:00:00 of the day the clock showed at the call, forecast_to
\* is 7 days later, whatever the series
C9_ForecastWindow ==
    Reported =>
        /\ report.forecast_from = <<now.day, 0, 0, 0, "Z">>
        /\ report.forecast_to = <<now.day + 7, 0, 0, 0, "Z">>

\* C9 witness: a report built one microsecond before midnight of day 1
C9_Witness ==
    /\ Reported /\ now = DateTime(1, 23, 59, 59, 999999)
    /\ report.forecast_from = <<1, 0, 0, 0, "Z">> /\ report.forecast_to = <<8, 0, 0, 0, "Z">>

-----------------------------------------------------------------------------
(* The power model of predict_production (lines 112-126) applied to samples of    *)
(* POA irradiance (100 W/m2) and air temperature (degrees C) of a system of kwp kW *)

PoaValues == {-2, 0, 1, 8, 10}

\* air temperatures; at 400 degrees the temperature factor is negative
TempValues == {-10, 22, 25, 40, 400}

KwpValues == {1, 5, 10}

Samples(n, values) == [1..n -> values]

PowerInit ==
    /\ EngineIdle
    /\ ApiIdle
    /\ TasksIdle
    /\ \E n \in 1..MaxSamples :
         \E poa \in Samples(n, PoaValues), temp \in Samples(n, TempValues),
            k \in KwpValues :
           power_model = [pc |-> "drawn", poa_global |-> poa, temp_air |-> temp,
                          kwp |-> k, dc_power |-> <<>>, ac_power_kw |-> <<>>]

\* dc_power = pvwatts_dc(...); ac_power = dc_power * 0.95; the series ac_power / 1000
ComputePower ==
    /\ power_model.pc = "drawn"
    /\ LET dc == dc_power_of(power_model.poa_global, power_model.temp_air,
                             power_model.kwp)
       IN  power_model' = [power_model EXCEPT !.pc = "computed",
                                              !.dc_power = dc,
                                              !.ac_power_kw = ac_power_of(dc)]
    /\ UNCHANGED <<engineVars, apiVars, taskVars>>

PowerNext == ComputePower

PowerSpec == PowerInit /\ [][PowerNext]_vars

-----------------------------------------------------------------------------
(* Properties of the application (ApiSpec) *)

ProtectedEndpoints == {"POST /systems", "GET /systems", "POST /forecast/production"}

\* the auth service chosen by TESTING returns None for the token, the tables being
\* as they are
Unresolved(token) ==
    IsNone(auth_get_current_user(env_testing, token, users, uuid4(users)).user)

\* the endpoint handler did not run: nothing was stored and no weather was fetched
HandlerSkipped ==
    /\ effects'.handler = "none"
    /\ effects'.weather_fetches = 0
    /\ systems' = systems

RejectedToken(token) ==
    \/ token.form # "jwt"
    \/ token.expired
    \/ token.secret # jwt_secret
    \/ IsNone(token.sub)

\* C12: for a token that is expired, malformed, signed with another secret or without
\* sub, JWTAuthService.authenticate returns None, raises nothing and leaves the users
\* table as it was (so the request is answered 401, never 500).
C12_RejectedTokenReturnsNone ==
    [][/\ env_testing = "false"
       /\ ~IsNone(request'.credentials)
       /\ RejectedToken(Val(request'.credentials))
       => /\ JWTAuthService_authenticate(Val(request'.credentials), users, uuid4(users))
               = [exc |-> "none", user |-> None, users |-> users]
          /\ users' = users
          /\ response'.status = 401
          /\ response'.detail = "Could not validate credentials"]_vars

\* a token for an unknown email signed with another secret was refused and no user
\* was created
C12_Witness ==
    /\ env_testing = "false"
    /\ request.credentials = Some(Jwt(Some("test@example.com"), "wrong-secret", FALSE))
    /\ response.status = 401
    /\ users = {}

\* no two user records share an email
OnePerEmail == \A u, v \in users : u.email = v.email => u = v

UsersWithEmail(email) == {u \in users : u.email = email}

\* a step that answers a request carrying a valid token for `email` with the JWT
\* service: the user authenticate returns is the record with that email that existed
\* before, and then no record is added; or, if there was none, the one record the
\* call adds, which carries that email.  A system created by the request is stored
\* for that user.
ValidTokenStep(email) ==
    LET r == JWTAuthService_authenticate(Val(request'.credentials), users, uuid4(users))
    IN  /\ r.exc = "none"
        /\ ~IsNone(r.user)
        /\ Val(r.user).email = email
        /\ users' = r.users
        /\ UsersWithEmail(email)' = {Val(r.user)}
        /\ IF UsersWithEmail(email) # {}
           THEN users' = users /\ Val(r.user) \in users
           ELSE users' = users \cup {Val(r.user)} /\ Cardinality(users') = Cardinality(users) + 1
        /\ response'.status # 401
        /\ response'.status = 201 => response'.body[1].user_id = Val(r.user).id

\* C13: there is at most one user record per email; the first valid token for an
\* unknown email creates exactly one user with that email, every later valid token
\* for that email returns that same user and creates no record, and a valid token for
\* a pre-existing email returns the pre-existing user.
C13_UserIdentityStable ==
    /\ []OnePerEmail
    /\ [][\A email \in Emails :
            /\ env_testing = "false"
            /\ request'.credentials = Some(Jwt(Some(email), jwt_secret, FALSE))
            => ValidTokenStep(email)]_vars

\* both users exist, one inserted beforehand and one created by a token, and a system
\* was just created for the pre-existing user with a valid token for its email
C13_Witness ==
    /\ env_testing = "false"
    /\ TestUser \in users
    /\ Cardinality(users) = 2
    /\ request.credentials = Some(Jwt(Some(TestUser.email), jwt_secret, FALSE))
    /\ response.status = 201
    /\ response.body[1].user_id = TestUser.id

\* the rows of pv_systems stored with user_id uid
StoredFor(uid) == { row \in { systems[i] : i \in 1..Len(systems) } : row.user_id = uid }

RowsOf(body) == { body[i] : i \in 1..Len(body) }

\* what one answered request of the user with id uid may do and show
IsolatedStep(uid) ==
    /\ request'.endpoint = "GET /systems"
         => /\ response'.status = 200
            /\ RowsOf(response'.body) = { PVSystemRead(row) : row \in StoredFor(uid) }
            /\ Len(response'.body) = Cardinality(StoredFor(uid))
            /\ systems' = systems
    /\ request'.endpoint = "POST /systems"
         => \/ response'.status = 422 /\ systems' = systems
            \/ /\ response'.status = 201
               /\ Len(systems') = Len(systems) + 1
               /\ SubSeq(systems', 1, Len(systems)) = systems
               /\ systems'[Len(systems')].user_id = uid
               /\ response'.body = <<PVSystemRead(systems'[Len(systems')])>>
    /\ request'.endpoint = "POST /forecast/production"
         => /\ systems' = systems
            /\ response'.status \in {200, 500}
                 => \E row \in StoredFor(uid) : row.id = request'.system_id

\* C14: the list returned to a user holds exactly the systems stored with that user's
\* id, every created system is stored with the id of the authenticated caller, and no
\* request shows or uses a system stored with another user's id.
C14_UserIsolation ==
    [][LET auth == get_current_user(env_testing, request'.credentials, users,
                                    uuid4(users))
       IN  IF auth.status = 200
           THEN IsolatedStep(Val(auth.user).id)
           ELSE systems' = systems /\ response'.body = <<>>]_vars

\* two users own one system each, and the list just returned to one of them holds
\* one system
C14_Witness ==
    /\ Len(systems) = 2
    /\ systems[1].user_id # systems[2].user_id
    /\ request.endpoint = "GET /systems"
    /\ response.status = 200
    /\ Len(response.body) = 1

\* the ranges of a configuration, in whole degrees and kW: latitude in [-90, 90],
\* longitude in [-180, 180], kwp > 0, tilt in [0, 90], azimuth in [0, 360)
InRange(c) ==
    /\ c.latitude \in -90..90
    /\ c.longitude \in -180..180
    /\ c.kwp > 0
    /\ c.tilt \in 0..90
    /\ c.azimuth \in 0..359

\* the request passed authentication
Authenticated ==
    get_current_user(env_testing, request'.credentials, users, uuid4(users)).status = 200

\* C15: an authenticated create request is accepted (201, the configuration stored as
\* sent) if and only if the configuration is in range, the extremes -90, 90, -180, 180,
\* tilt 0 and 90 and azimuth 0 included; otherwise (azimuth 360, kwp 0, ...) it is
\* answered 422 and nothing is stored.  So every stored system is in range.
C15_ConfigValidation ==
    /\ [](\A i \in 1..Len(systems) : InRange(systems[i]))
    /\ [][request'.endpoint = "POST /systems" /\ Authenticated
          => IF InRange(request'.config)
             THEN /\ response'.status = 201
                  /\ Len(systems') = Len(systems) + 1
                  /\ \A f \in {"name", "latitude", "longitude", "kwp", "tilt", "azimuth"} :
                       systems'[Len(systems')][f] = request'.config[f]
             ELSE /\ response'.status = 422
                  /\ systems' = systems]_vars

\* the configurations at the extremes are stored, and a request with azimuth 360 was
\* just answered 422
C15_Witness ==
    /\ Len(systems) = 2
    /\ {systems[1].latitude, systems[2].latitude} = {-90, 90}
    /\ {systems[1].longitude, systems[2].longitude} = {-180, 180}
    /\ {systems[1].tilt, systems[2].tilt} = {0, 90}
    /\ 0 \in {systems[1].azimuth, systems[2].azimuth}
    /\ request.endpoint = "POST /systems"
    /\ request.config.azimuth = 360
    /\ response.status = 422

\* the forecast endpoint returned a report
ForecastReturned ==
    request.endpoint = "POST /forecast/production" /\ response.status = 200

\* C16: every report returned by the forecast endpoint has total_energy_kwh >= 0,
\* every daily_energy_kwh >= 0 and every power_kw >= 0.
C16_ReportNonNegative ==
    ForecastReturned =>
        LET returned == response.body[1]
        IN  /\ returned.total_energy_kwh >= 0
            /\ \A k \in 1..Len(returned.forecast_list) :
                 /\ returned.forecast_list[k].daily_energy_kwh >= 0
                 /\ \A h \in 1..Len(returned.forecast_list[k].forecast) :
                      returned.forecast_list[k].forecast[h].power_kw >= 0

\* C20: ForecastRequest accepts days only in 1..7 and takes 7 when days is omitted;
\* days = 0 and days = 8 are rejected with a validation error, which the forecast
\* endpoint answers with 422 before the handler runs.
C20_DaysValidation ==
    [][request'.endpoint = "POST /forecast/production" /\ Authenticated
        => LET days  == request'.days
               model == ForecastRequest(days)
           IN  /\ IsNone(days) => model = Returned([days |-> 7])
               /\ ~IsNone(days) /\ Val(days) \in 1..7
                    => model = Returned([days |-> Val(days)])
               /\ ~IsNone(days) /\ Val(days) \notin 1..7
                    => model = Raised("ValidationError")
               /\ model.exc = "ValidationError"
                    <=> response'.status = 422 /\ effects'.handler = "none"]_vars

\* a forecast request for a stored system with days = 8 was answered 422
C20_Witness ==
    /\ request.endpoint = "POST /forecast/production"
    /\ request.days = Some(8)
    /\ request.system_id <= Len(systems)
    /\ response.status = 422

-----------------------------------------------------------------------------
(* Properties of the power model (PowerSpec) *)

PowerComputed == power_model.pc = "computed"

Timestamps == 1..Len(power_model.poa_global)

\* 1 + gamma * (temp_cell - 25) > 0 at timestamp i, with temp_cell = temp_air + 3 and
\* gamma = -0.003, in thousandths
FactorPositive(i) == 1000 - 3 * (power_model.temp_air[i] + 3 - 25) > 0

\* C17 as claimed: at every fixed POA irradiance, the timestamp with the higher air
\* temperature has strictly less DC power.
C17_HotterIsWeaker ==
    PowerComputed =>
        \A i, j \in Timestamps :
            /\ power_model.poa_global[i] = power_model.poa_global[j]
            /\ power_model.temp_air[i] < power_model.temp_air[j]
            => power_model.dc_power[i] > power_model.dc_power[j]

\* C17: at every fixed positive POA irradiance, the timestamp with the higher air
\* temperature has strictly less DC power; at POA irradiance 0 both have DC power 0,
\* and at a negative POA irradiance the hotter one has strictly more.
C17_HotterIsWeakerInLight ==
    PowerComputed =>
        \A i, j \in Timestamps :
            /\ power_model.poa_global[i] = power_model.poa_global[j]
            /\ power_model.temp_air[i] < power_model.temp_air[j]
            => CASE power_model.poa_global[i] > 0 ->
                        power_model.dc_power[i] > power_model.dc_power[j]
                 [] power_model.poa_global[i] = 0 ->
                        power_model.dc_power[i] = 0 /\ power_model.dc_power[j] = 0
                 [] OTHER ->
                        power_model.dc_power[i] < power_model.dc_power[j]

\* two timestamps with 800 W/m2, at 22 and 40 degrees: the hotter yields less
C17_Witness ==
    /\ PowerComputed
    /\ power_model.poa_global = <<8, 8>>
    /\ power_model.temp_air = <<22, 40>>
    /\ power_model.dc_power[1] > power_model.dc_power[2]
    /\ power_model.dc_power[2] > 0

\* C18: when the POA irradiance is 0 at every timestamp, the DC power and the AC power
\* in kW are 0 at every timestamp, whatever the air temperatures and kwp.
C18_DarkIsZero ==
    (PowerComputed /\ \A i \in Timestamps : power_model.poa_global[i] = 0)
        => \A i \in Timestamps :
             power_model.dc_power[i] = 0 /\ power_model.ac_power_kw[i] = 0

\* two dark timestamps, one freezing and one at 400 degrees, of a 10 kW system
C18_Witness ==
    /\ PowerComputed
    /\ power_model.poa_global = <<0, 0>>
    /\ power_model.temp_air = <<-10, 400>>
    /\ power_model.kwp = 10
    /\ power_model.ac_power_kw = <<0, 0>>

\* C19: with a positive POA irradiance and a positive temperature factor the AC power
\* is not negative; nothing is clamped: with a negative POA irradiance (and a positive
\* temperature factor) the AC power of the series is negative, 0.95 times the DC power.
C19_SignFollowsIrradiance ==
    PowerComputed =>
        \A i \in Timestamps :
            /\ power_model.ac_power_kw[i] = power_model.dc_power[i] * 95
            /\ FactorPositive(i) /\ power_model.poa_global[i] > 0
                 => power_model.ac_power_kw[i] >= 0
            /\ FactorPositive(i) /\ power_model.poa_global[i] < 0
                 => power_model.ac_power_kw[i] < 0

\* a series with a negative value for -200 W/m2 next to a positive one for 800 W/m2
C19_Witness ==
    /\ PowerComputed
    /\ power_model.poa_global = <<-2, 8>>
    /\ power_model.temp_air = <<22, 22>>
    /\ power_model.ac_power_kw[1] < 0
    /\ power_model.ac_power_kw[2] > 0

-----------------------------------------------------------------------------
(* Properties of the report labels and of the failure path (Spec) *)

\* the same power values carried by a series with the index of the given kind
Reindexed(kind) ==
    Series(SeriesIndex(kind, len(power_series)), power_series.values)

\* C21: report labels are positional and anchored to the call time: bucket d has the
\* day label of forecast_from + d days, and its entry at position h has the timestamp
\* of that day at hour h:00:00, whatever timestamps the series carries; a series with the
\* same values and other timestamps, formatted on the same UTC day, gives the same report
C21_PositionalLabels ==
    Reported =>
        LET forecast_from == replace_midnight(now)
        IN  /\ report.forecast_from = strftime(forecast_from, DATETIME_FORMAT)
            /\ \A d \in 0..6 :
                 LET b == report.forecast_list[d + 1]
                 IN  /\ b.day = strftime(PlusDays(forecast_from, d), DAY_FORMAT)
                     /\ Len(b.forecast) <= 24
                     /\ \A h \in 0..(Len(b.forecast) - 1) :
                          b.forecast[h + 1].timestamp
                            = strftime(DateTime(now.day + d, h, 0, 0, 0), DATETIME_FORMAT)
            /\ \A kind \in IndexKinds :
                 \A utcnow \in { t \in Instants : t.day = now.day } :
                   format_forecast_response(system_id, Reindexed(kind), utcnow)
                     = Returned(report)

\* C21 witness: a series whose first sample is stamped 10:00 of day 1 is reported at
\* 13:30:07 of day 0; its first entry is labelled 00:00 of day 0 and its 25th entry
\* 00:00 of day 1
C21_Witness ==
    /\ Reported
    /\ len(power_series) > 24
    /\ power_series.index[1] = DateTime(1, 10, 0, 0, 0)
    /\ now = DateTime(0, 13, 30, 7, 250)
    /\ report.forecast_list[1].forecast[1].timestamp = <<0, 0, 0, 0, "Z">>
    /\ report.forecast_list[2].forecast[1].timestamp = <<1, 0, 0, 0, "Z">>

-----------------------------------------------------------------------------
(* Properties of the forecast endpoint (ApiSpec) *)

\* the forecast handler has called get_weather_data for the system it loaded
WeatherFetched ==
    effects.handler = "forecast_production" /\ effects.weather_fetches = 1

\* the call to Open-Meteo failed: no connection, an HTTP error status, no JSON body
FetchFailed == upstream.kind \in {"transport_error", "http_error", "bad_json"}

-----------------------------------------------------------------------------
(* Properties of the weather adapter and of the power model *)

\* get_forecast has returned a payload it decoded that is not well-formed
Malformed == upstream.kind = "ok" /\ ~WellFormed

\* C23: for every malformed payload (no hourly block, a non-empty time array with one
\* or more measurement arrays missing, measurement arrays of another length than the
\* time array) get_forecast returns an empty table, and every table it returns has
\* five completely filled numeric measurement columns
C23_MalformedGivesEmpty ==
    upstream.kind # "none" =>
        /\ Malformed => IsEmpty(weather)
        /\ ~IsEmpty(weather) =>
              \A c \in WeatherColumns :
                /\ c \in weather.columns
                /\ weather.data[c].dtype = "float64"
                /\ Len(weather.data[c].values) = len(weather)

\* predict_production has returned a series for a table with rows
Predicted == pc \in {"predicted", "summed", "done", "format_failed"} /\ ~IsEmpty(weather)

\* the plane-of-array irradiance of the weather table, in 100 W/m2
PoaGlobal ==
    get_total_irradiance(pv_system.tilt,
                         get_solarposition(weather.index, pv_system.latitude,
                                           pv_system.longitude),
                         weather.data["dni"].values, weather.data["ghi"].values,
                         weather.data["dhi"].values)

\* the weather table with wind speed w in every row
WithWind(w) ==
    [weather EXCEPT !.data["wind_speed"].values = [i \in 1..len(weather) |-> w]]

WindValues == {0, 50}

\* C24: every value of the series predict_production returns is
\* kwp*1000 * (g_poa/1000) * (1 + gamma*((temp_air + 3) - 25)) * 0.95 / 1000 kW with
\* gamma = -0.003, which is 95 * kwp * g * (1000 - 3 * (temp_air + 3 - 25)) micro-kW for
\* g_poa = 100 * g W/m2; the same series is returned for any wind speed
C24_PowerModel ==
    Predicted =>
        /\ len(power_series) = len(weather)
        /\ \A i \in 1..len(weather) :
             power_series.values[i]
               = 95 * pv_system.kwp * PoaGlobal[i]
                    * (1000 - 3 * ((weather.data["temp_air"].values[i] + 3) - 25))
        /\ \A w \in WindValues :
             predict_production(pv_system, WithWind(w)).value = power_series

\* C24 witness: a 5 kWp system at 21 degrees C under 1000 W/m2 direct and 100 W/m2
\* diffuse irradiance with the sun up gives 5 * 1.1 * 1.003 * 0.95 = 5.240675 kW
C24_Witness ==
    /\ Predicted
    /\ pv_system.kwp = 5
    /\ \E i \in 1..len(weather) :
         /\ weather.data["temp_air"].values[i] = 21
         /\ PoaGlobal[i] = 11
         /\ power_series.values[i] = 5240675

-----------------------------------------------------------------------------
(* Concurrent forecast invocations on the module-level service: each runs lines    *)
(* 73-78 of main.py, and the steps of different invocations interleave.  The       *)
(* methods of ForecastingService assign no attribute of self.                      *)

\* variant of local: every invocation works on one set of module-level variables
local_shared(frames, i) == frames[1]

\* the local variables of invocation i: every call of forecast_production has its own
local(frames, i) == frames[i]

\* instants the clock shows to concurrent invocations: two of day 0, midnight of day 1
CallInstants ==
    { DateTime(0, 13, 30, 7, 250), DateTime(0, 23, 59, 59, 999999),
      DateTime(1, 0, 0, 0, 0) }

ForecastInit ==
    /\ EngineIdle
    /\ ApiIdle
    /\ PowerModelIdle
    /\ TasksIdle

\* forecast_production(system_id, ...) has loaded pv_system (lines 62-71)
CallForecast(i) ==
    /\ calls[i].pc = "idle"
    /\ \E pv \in PVSystems :
         calls' = [calls EXCEPT ![i].pc = "called", ![i].system_id = pv.id,
                                ![i].pv_system = pv]
    /\ UNCHANGED <<engineVars, apiVars, power_model, service, sessions>>

\* line 74: weather_data = service.get_weather_data(pv_system, days=7)
CallGetWeatherData(i) ==
    /\ calls[i].pc = "called"
    /\ \E resp \in ApiResponses :
         LET r == get_weather_data(local(calls, i).pv_system, 7, resp)
         IN  calls' = IF r.exc # "none"
                      THEN [calls EXCEPT ![i].pc = "raised", ![i].resp = resp,
                                         ![i].raised = r.exc]
                      ELSE [calls EXCEPT ![i].pc = "fetched", ![i].resp = resp,
                                         ![i].weather_data = r.value]
    /\ UNCHANGED <<engineVars, apiVars, power_model, service, sessions>>

\* line 75: power_forecast = service.predict_production(pv_system, weather_data)
CallPredictProduction(i) ==
    /\ calls[i].pc = "fetched"
    /\ LET r == predict_production(local(calls, i).pv_system, local(calls, i).weather_data)
       IN  calls' = IF r.exc # "none"
                    THEN [calls EXCEPT ![i].pc = "raised", ![i].raised = r.exc]
                    ELSE [calls EXCEPT ![i].pc = "predicted", ![i].power_forecast = r.value]
    /\ UNCHANGED <<engineVars, apiVars, power_model, service, sessions>>

\* lines 76-78: result = service.format_forecast_response(system_id, power_forecast)
CallFormatForecastResponse(i) ==
    /\ calls[i].pc = "predicted"
    /\ \E utcnow \in CallInstants :
         LET r == format_forecast_response(local(calls, i).system_id,
                                           local(calls, i).power_forecast, utcnow)
         IN  calls' = IF r.exc # "none"
                      THEN [calls EXCEPT ![i].pc = "raised", ![i].utcnow = utcnow,
                                         ![i].raised = r.exc]
                      ELSE [calls EXCEPT ![i].pc = "returned", ![i].utcnow = utcnow,
                                         ![i].result = r.value]
    /\ UNCHANGED <<engineVars, apiVars, power_model, service, sessions>>

ForecastNext ==
    \/ \E i \in Invocations : CallForecast(i)
    \/ \E i \in Invocations : CallGetWeatherData(i)
    \/ \E i \in Invocations : CallPredictProduction(i)
    \/ \E i \in Invocations : CallFormatForecastResponse(i)

ForecastSpec == ForecastInit /\ [][ForecastNext]_vars

\* what the invocation with the inputs of frame f computes when it runs alone
AlonePower(f) ==
    predict_production(f.pv_system, get_weather_data(f.pv_system, 7, f.resp).value)

AloneReport(f, utcnow) ==
    format_forecast_response(f.system_id, AlonePower(f).value, utcnow)

\* C25: under any interleaving of forecast invocations on the shared service, the power
\* series and the report of each invocation are those the invocation computes alone
\* from its own system and weather on the same UTC day, an invocation that raises is
\* one that raises alone, and the service object is never changed
C25_NoCrossCallState ==
    /\ service = ForecastingService_init
    /\ \A i \in Invocations :
         LET f == calls[i]
         IN  /\ f.pc \in {"predicted", "returned"} =>
                  /\ AlonePower(f).exc = "none"
                  /\ AlonePower(f).value = f.power_forecast
             /\ f.pc = "raised" => AlonePower(f).exc = f.raised
             /\ f.pc = "returned" =>
                  \A t \in { u \in CallInstants : u.day = f.utcnow.day } :
                    AloneReport(f, t) = Returned(f.result)

\* C25 witness: two invocations for different systems under different weather have
\* both returned, each with a report of its own
C25_Witness ==
    /\ calls[1].pc = "returned" /\ calls[2].pc = "returned"
    /\ calls[1].pv_system # calls[2].pv_system
    /\ calls[1].resp # calls[2].resp
    /\ calls[1].result.total_energy_kwh > 0
    /\ calls[2].result.total_energy_kwh > 0
    /\ calls[1].result # calls[2].result

\* the step answers a request to the forecast endpoint
ForecastStep == request'.endpoint = "POST /forecast/production"

\* the email of a token that JWTAuthService accepts, as a set; empty for any other
EmailOf(credentials) ==
    IF IsNone(credentials) THEN {}
    ELSE LET payload == jwt_decode(Val(credentials), jwt_secret)
         IN  IF payload.exc # "none" \/ no_username(payload.value.sub) THEN {}
             ELSE {Val(payload.value.sub)}

\* the step inserts the users row of a first valid token: the email is that of the
\* token, no row had it, and the request is answered without any work of the engine
FirstTokenStep ==
    /\ env_testing # "true"
    /\ \E email \in EmailOf(request'.credentials) :
         /\ \A u \in users : u.email # email
         /\ \E u \in users' : u.email = email /\ u \notin users /\ users' = users \cup {u}
    /\ effects'.weather_fetches = 0

-----------------------------------------------------------------------------
(* Concurrent requests with valid tokens: each runs JWTAuthService.authenticate on *)
(* a database session of its own (get_db), over the one table users.  authenticate *)
(* is a coroutine without a suspension point, so within one server process it runs *)
(* from the query of line 27 to the commit of line 37 before the event loop takes  *)
(* up another request; the calls of requests served by different server processes  *)
(* on the same database interleave between the two statements.                     *)

\* the server processes that share the database
Workers == {"worker-1", "worker-2"}

\* the event loop of the worker is inside an authenticate call
Busy(calling, worker) ==
    \E s \in DOMAIN calling : calling[s].pc = "adding" /\ calling[s].worker = worker

\* str(uuid.uuid4()) of a call: an id no row and no other call has
fresh_uuids(db_users, calling) ==
    { id \in Uuids :
        /\ \A u \in db_users : u.id # id
        /\ \A s \in DOMAIN calling :
             IsNone(calling[s].created) \/ Val(calling[s].created).id # id }

AuthInit ==
    /\ EngineIdle
    /\ PowerModelIdle
    /\ TasksIdle
    /\ users \in {{}, {TestUser}}
    /\ systems = <<>>
    /\ env_testing = "false"
    /\ request = NoRequest
    /\ response = NoAnswer
    /\ effects = NoEffects

\* lines 19-34: the token is decoded and the user looked up by email; a user found is
\* returned, otherwise a User with a new id is built
AuthQuery(s) ==
    /\ sessions[s].pc = "idle"
    /\ \E token \in ValidTokens, new_id \in fresh_uuids(users, sessions),
          worker \in { w \in Workers : ~Busy(sessions, w) } :
         LET username == jwt_decode(token, jwt_secret).value.sub
             user     == found_user(users, Val(username))
         IN  sessions' =
               IF ~IsNone(user)
               THEN [sessions EXCEPT ![s] = [pc |-> "answered", worker |-> worker,
                                             token |-> token,
                                             created |-> None, user |-> user,
                                             status |-> 200]]
               ELSE [sessions EXCEPT ![s] = [pc |-> "adding", worker |-> worker,
                                             token |-> token,
                                             created |-> Some([id |-> new_id,
                                                               email |-> Val(username)]),
                                             user |-> None, status |-> 0]]
    /\ UNCHANGED <<engineVars, apiVars, power_model, service, calls>>

\* lines 35-49: db.add(user), db.commit(), db.refresh(user); an exception of the commit
\* is caught by an except clause, authenticate returns None and get_current_user
\* answers 401
AuthCommit(s) ==
    /\ sessions[s].pc = "adding"
    /\ LET created   == Val(sessions[s].created)
           committed == commit_user(users, created)
           caught    == \E k \in 1..Len(AuthExceptClauses) :
                           Catches(AuthExceptClauses[k], committed.exc)
       IN  /\ users' = committed.users
           /\ sessions' =
                IF committed.exc = "none"
                THEN [sessions EXCEPT ![s].pc = "answered", ![s].user = Some(created),
                                      ![s].status = 200]
                ELSE IF caught
                THEN [sessions EXCEPT ![s].pc = "answered", ![s].status = 401]
                ELSE [sessions EXCEPT ![s].pc = "answered", ![s].status = 500]
    /\ UNCHANGED <<engineVars, systems, env_testing, request, response, effects,
                   power_model, service, calls>>

\* the request is answered and its database session closed; the next one may come
AuthClose(s) ==
    /\ sessions[s].pc = "answered"
    /\ sessions' = [sessions EXCEPT ![s] = NoSession]
    /\ UNCHANGED <<engineVars, apiVars, power_model, service, calls>>

AuthNext ==
    \/ \E s \in Invocations : AuthQuery(s)
    \/ \E s \in Invocations : AuthCommit(s)
    \/ \E s \in Invocations : AuthClose(s)

AuthSpec == AuthInit /\ [][AuthNext]_vars

\* C27: a request with a valid, unexpired token with a sub claim is never answered 401,
\* whether or not the user exists yet and also when two first requests for one email
\* are processed concurrently on separate database sessions: each resolves to the
\* single users row of its email
C27_ValidTokenAuthenticated ==
    /\ OnePerEmail
    /\ \A s \in Invocations :
         sessions[s].pc = "answered" =>
           /\ sessions[s].status = 200
           /\ ~IsNone(sessions[s].user)
           /\ Val(sessions[s].user) \in users
           /\ Val(sessions[s].user).email = Val(sessions[s].token.sub)

-----------------------------------------------------------------------------
(* Properties of the forecast handler: ownership, clock, window (ApiSpec, Spec) *)

\* the request answered last went to the forecast endpoint
ForecastRequested == request.endpoint = "POST /forecast/production"

\* the caller of the request answered last, as the dependency resolves it (None if it
\* answers 401); the users row of a first valid token exists by now
Caller == get_current_user(env_testing, request.credentials, users, uuid4(users)).user

\* the rows of pv_systems with the id of the request
SystemsRequested ==
    { row \in { systems[k] : k \in 1..Len(systems) } : row.id = request.system_id }

\* the system of the request exists and belongs to the caller
OwnedByCaller ==
    /\ ~IsNone(Caller)
    /\ \E row \in SystemsRequested : row.user_id = Val(Caller).id

DayOf(label) == label[1]

\* C29: format_forecast_response reads the clock once (now), and forecast_from,
\* forecast_to, the 7 day labels and all hour timestamps derive from that reading:
\* bucket 0's day is the date of forecast_from, bucket d's day is d days later, every
\* hour entry carries the day of its bucket, and forecast_to is the day after bucket 6,
\* also for a reading taken in the last microsecond before UTC midnight
C29_SingleClockReading ==
    Reported =>
        /\ report.forecast_from = <<now.day, 0, 0, 0, "Z">>
        /\ report.forecast_to = <<DayOf(report.forecast_from) + 7, 0, 0, 0, "Z">>
        /\ DayOf(report.forecast_to) = DayOf(report.forecast_list[7].day) + 1
        /\ \A d \in 0..6 :
             /\ DayOf(report.forecast_list[d + 1].day) = DayOf(report.forecast_from) + d
             /\ \A h \in 1..Hours(d) :
                  DayOf(report.forecast_list[d + 1].forecast[h].timestamp)
                    = DayOf(report.forecast_list[d + 1].day)

\* C29 witness: the clock was read at 23:59:59.999999 of day 0 and a report of more
\* than six days of hours runs from day 0 to day 7, bucket 6 being day 6
C29_Witness ==
    /\ Reported
    /\ now = DateTime(0, 23, 59, 59, 999999)
    /\ len(power_series) > 144
    /\ report.forecast_from = <<0, 0, 0, 0, "Z">>
    /\ report.forecast_to = <<7, 0, 0, 0, "Z">>
    /\ report.forecast_list[7].day = <<6>>
    /\ report.forecast_list[7].forecast[1].timestamp = <<6, 0, 0, 0, "Z">>

\* the days a valid request body can carry: the default and the ends of 1..7
ValidDays == { d \in DaysValues : ForecastRequest(d).exc = "none" }

\* the answer to the request answered last, had its body carried days d
AnswerForDays(d) ==
    LET looked == forecast_production_lookup([request EXCEPT !.days = d], env_testing,
                                             users, systems, uuid4(users))
    IN  IF IsNone(looked.loaded) THEN looked.answer
        ELSE LET utcnow == CHOOSE t \in ApiInstants : TRUE
             IN  forecast_production(request.system_id, ForecastRequest(d).value,
                                     Val(looked.loaded), looked.answer.users,
                                     looked.answer.systems, upstream, utcnow)

\* C30: the forecast endpoint always asks Open-Meteo for 7 days, whatever days (1..7)
\* the validated body carries, and two requests for the same system that differ only
\* in days get the same answer on the same UTC day with the same weather
C30_DaysIgnored ==
    WeatherFetched =>
        /\ request.days \in ValidDays
        /\ effects.forecast_days = 7
        /\ \A d \in ValidDays :
             /\ AnswerForDays(d).response = response
             /\ AnswerForDays(d).effects.forecast_days = effects.forecast_days

\* C30 witness: a request with days = 1 has been answered with a report whose window
\* is 7 days, after a fetch of 7 days
C30_Witness ==
    /\ WeatherFetched
    /\ request.days = Some(1)
    /\ response.status = 200
    /\ effects.forecast_days = 7
    /\ Val(response.body).forecast_to = <<7, 0, 0, 0, "Z">>
    /\ Val(response.body).total_energy_kwh > 0

====
